---------------------------- MODULE Spec2Model ----------------------------
(***************************************************************************)
(* Model of the batch-ingestion pipeline framework of BFHTW:               *)
(*   - BasePipeline.run / _process_batch / _validate_item                  *)
(*     (pipelines/base_pipeline.py)                                        *)
(*   - PipelineManager.run_pipeline and its helpers                        *)
(*     (pipelines/pipeline_manager.py)                                     *)
(*                                                                         *)
(* Spec     : one BasePipeline.run() call, stepped hook call by hook call. *)
(* SpecMgr  : several callers of PipelineManager.run_pipeline whose steps  *)
(*            interleave (the manager holds no lock).                      *)
(* SpecSeq  : the same manager, calls never overlap.                       *)
(***************************************************************************)
EXTENDS Integers, Sequences, FiniteSets, TLC

(* ------------------------------ bounds -------------------------------- *)
MaxItems == 3
MaxBatch == 2
MaxValidators == 1
MaxCallers == 2
MaxCalls == 2
MaxClock == 2
MaxEntries == 2
MaxMembers == 2
MaxSchemaErrors == 2
MaxBulk == 2

VARIABLES
    (* BasePipeline.run *)
    pc,               \* position inside run() / _process_batch()
    id_raises,        \* whether self.source.get_identifier() raises
    batch_size,       \* self.batch_size
    validators,       \* len(self.validators)
    source_kind,      \* "unset" | "list" | "nolen": what source_data is bound to
    source_data,      \* the fetched list (item ids 1..n)
    batch_start,      \* loop variable of range(0, len(source_data), batch_size)
    batch,            \* source_data[batch_start:batch_end]
    k,                \* position of `item` inside batch (1-based)
    processed_item,   \* truthiness of process_item's return value
    processed_count, failed_count, errors,       \* locals of run()
    b_processed, b_failed, b_errors,             \* locals of _process_batch()
    status,           \* local `status` of run()
    result,           \* the PipelineResult run() returns
    calls,            \* every call made on the source, validators and hooks
    batches           \* the batches handed to _process_batch so far

pvars == <<pc, id_raises, batch_size, validators, source_kind, source_data, batch_start,
           batch, k, processed_item, processed_count, failed_count, errors,
           b_processed, b_failed, b_errors, status, result, calls, batches>>

VARIABLES
    (* PipelineManager *)
    executions,         \* self.executions: the history, in append order
    running_pipelines,  \* self.running_pipelines: name -> index of its Execution, 0 = absent
    now,                \* datetime.now(), in clock units of 12 hours
    mpc,                \* per caller: position inside run_pipeline
    mname,              \* per caller: the pipeline_name argument
    mexec,              \* per caller: index of its local `execution`, 0 = none yet
    mret,               \* per caller: what the call gave back to its caller
    mout,               \* per caller: how the call made inside the try block ended
    ncalls              \* number of run_pipeline calls made so far

mvars == <<executions, running_pipelines, now, mpc, mname, mexec, mret, mout, ncalls>>

VARIABLES
    (* PipelineManager.__init__ *)
    config_file,        \* the file at self.config_file: absent, unparseable, or its entries
    self_pipelines,     \* self.pipelines, in insertion order
    jobs,               \* the triggers registered with the schedule module
    spc                 \* position inside __init__

svars == <<config_file, self_pipelines, jobs, spc>>

VARIABLES
    (* validation.py *)
    members,              \* CompositeValidator.validators: what each member's validate does
    stop_on_first_error,  \* CompositeValidator.stop_on_first_error
    composite_result,     \* what CompositeValidator.validate gave
    item_result,          \* what BasePipeline._validate_item gave for the same members
    schema_input,         \* what the model constructor does for the record given
    strict,               \* SchemaValidator.strict
    schema_result,        \* what SchemaValidator.validate gave
    vdone                 \* which of the three validate calls have been made

vvars == <<members, stop_on_first_error, composite_result, item_result, schema_input,
           strict, schema_result, vdone>>

VARIABLES
    (* CRUD over the SQLite file at DB_PATH *)
    db,             \* the committed rows of the table
    has_unique,     \* whether the table was created with unique_fields = [u]
    last_insert,    \* per key: the record CRUD.insert was last given, since the last bulk_insert
    last            \* the last CRUD call: its arguments and what it gave

cvars == <<db, has_unique, last_insert, last>>

VARIABLES
    (* CRUD over a table derived from a pydantic model *)
    tcols,          \* the columns of the table, <<>> while the table does not exist
    trows,          \* the committed rows of the table, as SQLite stores them
    t_inserted,     \* the record CRUD.insert was last given
    tlast           \* the last call: its arguments and what it gave

tvars == <<tcols, trows, t_inserted, tlast>>

VARIABLES
    (* the command line entry points of pipelines/main.py *)
    cli_args,       \* the parsed arguments: command and pipeline
    cli_env,        \* what the called code does: returns, raises, or is interrupted
    cli_entry,      \* the entry point that was called, "none" before the call
    cli_wrapper,    \* what the run_*_pipeline function gave run_pipeline_command
    cli_out         \* what the entry point gave: an exit code or an exception

lvars == <<cli_args, cli_env, cli_entry, cli_wrapper, cli_out>>

VARIABLES
    (* DatabaseSource over the documents table, DocumentProcessingPipeline *)
    doc_table_exists,   \* whether the table documents exists
    documents,          \* the committed rows of the table documents
    d_last              \* the last call on the source or pipeline and what it gave

dvars == <<doc_table_exists, documents, d_last>>

xvars == <<svars, vvars, cvars, tvars, lvars, dvars>>

vars == <<pvars, mvars, xvars>>

(* ---------------------------- small helpers --------------------------- *)
Min(a, b) == IF a < b THEN a ELSE b

(* the list fetch_metadata returns: n items, named by their position *)
Iota(n) == [i \in 1..n |-> i]

(* what a hook or a source method can do when called *)
ExcKinds == {"ValidationError", "Exception"}

(* one member validator's validate(item): a ValidationResult, or a raise *)
VOk    == [raises |-> FALSE, errors |-> <<>>,        warnings |-> <<>>]
VWarn  == [raises |-> FALSE, errors |-> <<>>,        warnings |-> <<"vwarn">>]
VErr   == [raises |-> FALSE, errors |-> <<"verr">>,  warnings |-> <<>>]
VRaise == [raises |-> TRUE,  errors |-> <<>>,        warnings |-> <<>>]
VResults == {VOk, VWarn, VErr, VRaise}

NoResult == [status |-> "none", processed_count |-> 0, failed_count |-> 0,
             errors |-> <<>>, total_items |-> 0]


(* ----------------------- BasePipeline._validate_item ------------------- *)
(* outs[j] is what validators[j].validate(item) does.  The loop stops at   *)
(* the first validator that raises; errors and warnings are concatenated.  *)
RECURSIVE ConcatField(_, _, _)
ConcatField(outs, j, f) ==
    IF j = 0 THEN <<>>
    ELSE ConcatField(outs, j - 1, f) \o (IF f = "errors" THEN outs[j].errors
                                         ELSE outs[j].warnings)

IsValidMut(all_errors) == TRUE

IsValid(all_errors) == Len(all_errors) = 0

validate_item(outs) ==
    IF \E j \in 1..Len(outs) : outs[j].raises
    THEN [raised |-> TRUE, is_valid |-> FALSE, errors |-> <<>>, warnings |-> <<>>]
    ELSE LET all_errors   == ConcatField(outs, Len(outs), "errors")
             all_warnings == ConcatField(outs, Len(outs), "warnings")
         IN [raised |-> FALSE, is_valid |-> IsValid(all_errors),
             errors |-> all_errors, warnings |-> all_warnings]

(* --------------------------- BasePipeline.run -------------------------- *)
ConnectionOkMut(out) == out # "raise"

(* `if not self.source.validate_connection(): raise ConnectionError` *)
ConnectionOk(out) == out = "True"

FinalStatusMut(fc) == "SUCCESS"

(* `status = SUCCESS if failed_count == 0 else FAILED` *)
FinalStatus(fc) == IF fc = 0 THEN "SUCCESS" ELSE "FAILED"

BatchEndIdxMut(bs, size, n) == Min(bs + size + 1, n)

(* `batch_end = min(batch_start + self.batch_size, len(source_data))` *)
BatchEndIdx(bs, size, n) == Min(bs + size, n)

AccumulateMut(total, part) == part

(* `processed_count += batch_result.processed_count` (and failed_count) *)
Accumulate(total, part) == total + part

AfterRaiseMut(kk, len) == len + 1

(* the except clauses sit inside `for item in batch`: the loop goes on *)
AfterRaise(kk, len) == kk + 1

Log(op, item, out) == [op |-> op, item |-> item, out |-> out]

(* what the validators did with an item: raised, reported errors, or not *)
VLabel(vr) == IF vr.raised THEN "raise"
              ELSE IF Len(vr.errors) > 0 THEN "invalid" ELSE "valid"

PipeInit ==
    /\ pc = "start"
    /\ id_raises \in BOOLEAN
    /\ batch_size \in 1..MaxBatch
    /\ validators \in 0..MaxValidators
    /\ source_kind = "unset"
    /\ source_data = <<>>
    /\ batch_start = 0
    /\ batch = <<>>
    /\ k = 0
    /\ processed_item = FALSE
    /\ processed_count = 0 /\ failed_count = 0 /\ errors = <<>>
    /\ b_processed = 0 /\ b_failed = 0 /\ b_errors = <<>>
    /\ status = "unset"
    /\ result = NoResult
    /\ calls = <<>>
    /\ batches = <<>>

(* the `except Exception` of run(): lines 139-142 *)
RunExcept(text) ==
    /\ errors' = Append(errors, text)
    /\ status' = "FAILED"
    /\ pc' = "finish"

(* lines 108-118: pre-flight validation *)
ValidateConnection ==
    /\ pc = "start"
    /\ \E out \in {"True", "False", "raise"} :
         /\ calls' = Append(calls, Log("validate_connection", 0, out))
         /\ IF out = "raise"
            THEN RunExcept("validate_connection raised")
            ELSE IF ConnectionOk(out)
                 THEN /\ pc' = "fetch"
                      /\ UNCHANGED <<errors, status>>
                 ELSE \* the message calls get_identifier(), which may raise
                      RunExcept(IF id_raises THEN "get_identifier raised"
                                             ELSE "ConnectionError")
    /\ UNCHANGED <<id_raises, batch_size, validators, source_kind, source_data,
                   batch_start, batch, k, processed_item, processed_count,
                   failed_count, b_processed, b_failed, b_errors, result,
                   batches>>

(* lines 121-122: fetch the whole list, then log its length *)
FetchMetadata ==
    /\ pc = "fetch"
    /\ \E out \in {"list", "nolen", "raise"}, n \in 0..MaxItems :
         /\ calls' = Append(calls, Log("fetch_metadata", 0, out))
         /\ CASE out = "raise" ->
                   /\ RunExcept("fetch_metadata raised")
                   /\ UNCHANGED <<source_kind, source_data>>
              [] out = "nolen" ->       \* e.g. None: len(source_data) raises
                   /\ source_kind' = "nolen"
                   /\ source_data' = <<>>
                   /\ RunExcept("TypeError")
              [] out = "list" ->
                   /\ source_kind' = "list"
                   /\ source_data' = Iota(n)
                   /\ IF id_raises     \* line 122 logs get_identifier()
                      THEN RunExcept("get_identifier raised")
                      ELSE /\ pc' = "batch"
                           /\ UNCHANGED <<errors, status>>
    /\ batch_start' = 0
    /\ UNCHANGED <<id_raises, batch_size, validators, batch, k, processed_item,
                   processed_count, failed_count, b_processed, b_failed,
                   b_errors, result, batches>>

(* lines 125-127 and 137: the head of the batch loop *)
NextBatch ==
    /\ pc = "batch"
    /\ IF batch_start < Len(source_data)
       THEN LET batch_end == BatchEndIdx(batch_start, batch_size, Len(source_data))
            IN /\ batch' = SubSeq(source_data, batch_start + 1, batch_end)
               /\ batches' = Append(batches,
                                    SubSeq(source_data, batch_start + 1, batch_end))
               /\ k' = 1
               /\ b_processed' = 0 /\ b_failed' = 0 /\ b_errors' = <<>>
               /\ pc' = IF batch_end > batch_start THEN "validate" ELSE "batch_end"
               /\ UNCHANGED status
       ELSE /\ status' = FinalStatus(failed_count)
            /\ pc' = "finish"
            /\ UNCHANGED <<batch, batches, k, b_processed, b_failed, b_errors>>
    /\ UNCHANGED <<id_raises, batch_size, validators, source_kind, source_data,
                   batch_start, processed_item, processed_count, failed_count,
                   errors, result, calls>>

(* ---------------------- BasePipeline._process_batch -------------------- *)
item == batch[k]

(* leave the body of `for item in batch` normally (or by `continue`) *)
ItemDone ==
    /\ k' = k + 1
    /\ pc' = IF k + 1 > Len(batch) THEN "batch_end" ELSE "validate"

(* leave it through `except ValidationError` / `except Exception` *)
ItemRaised(kind) ==
    /\ b_errors' = Append(b_errors, IF kind = "ValidationError"
                                    THEN "Validation error"
                                    ELSE "Processing error")
    /\ b_failed' = b_failed + 1
    /\ k' = AfterRaise(k, Len(batch))
    /\ pc' = IF AfterRaise(k, Len(batch)) > Len(batch) THEN "batch_end"
                                                       ELSE "validate"

(* lines 172-176: run the validators on the item *)
ValidateItem ==
    /\ pc = "validate"
    /\ \E outs \in [1..validators -> VResults], kind \in ExcKinds :
         LET validation_result == validate_item(outs)
         IN /\ calls' = Append(calls, Log("validate", item, VLabel(validation_result)))
            /\ IF validation_result.raised
               THEN /\ ItemRaised(kind)
                    /\ UNCHANGED b_processed
               ELSE IF ~ validation_result.is_valid
                    THEN /\ b_errors' = b_errors \o validation_result.errors
                         /\ b_failed' = b_failed + 1
                         /\ ItemDone
                         /\ UNCHANGED b_processed
                    ELSE /\ pc' = "process"
                         /\ UNCHANGED <<k, b_processed, b_failed, b_errors>>
    /\ UNCHANGED <<id_raises, batch_size, validators, source_kind, source_data,
                   batch_start, batch, processed_item, processed_count,
                   failed_count, errors, status, result, batches>>

(* lines 179-187: process_item, and the else branch for a falsy record *)
ProcessItem ==
    /\ pc = "process"
    /\ \E out \in {"record", "None"} \cup ExcKinds :
         /\ calls' = Append(calls, Log("process_item", item, out))
         /\ CASE out = "record" ->
                   /\ processed_item' = TRUE
                   /\ pc' = "store"
                   /\ UNCHANGED <<k, b_processed, b_failed, b_errors>>
              [] out = "None" ->
                   /\ processed_item' = FALSE
                   /\ b_failed' = b_failed + 1
                   /\ b_errors' = Append(b_errors, "Processing returned None")
                   /\ ItemDone
                   /\ UNCHANGED b_processed
              [] out \in ExcKinds ->
                   /\ ItemRaised(out)
                   /\ UNCHANGED <<processed_item, b_processed>>
    /\ UNCHANGED <<id_raises, batch_size, validators, source_kind, source_data,
                   batch_start, batch, processed_count, failed_count, errors,
                   status, result, batches>>

(* lines 183-184: store_item's return value is not looked at *)
StoreItem ==
    /\ pc = "store"
    /\ \E out \in {"True", "False"} \cup ExcKinds :
         /\ calls' = Append(calls, Log("store_item", item, out))
         /\ IF out \in ExcKinds
            THEN /\ ItemRaised(out)
                 /\ UNCHANGED b_processed
            ELSE /\ b_processed' = b_processed + 1
                 /\ ItemDone
                 /\ UNCHANGED <<b_failed, b_errors>>
    /\ UNCHANGED <<id_raises, batch_size, validators, source_kind, source_data,
                   batch_start, batch, processed_item, processed_count,
                   failed_count, errors, status, result, batches>>

(* lines 129-135, after _process_batch returned (196-204) *)
BatchEnd ==
    /\ pc = "batch_end"
    /\ processed_count' = Accumulate(processed_count, b_processed)
    /\ failed_count' = Accumulate(failed_count, b_failed)
    /\ errors' = errors \o b_errors
    /\ batch_start' = batch_start + batch_size
    /\ pc' = "batch"
    /\ UNCHANGED <<id_raises, batch_size, validators, source_kind, source_data, batch, k,
                   processed_item, b_processed, b_failed, b_errors, status,
                   result, calls, batches>>

(* lines 144-161: build the PipelineResult; this part is outside the try, *)
(* so a raise of get_identifier() or of len(source_data) leaves run()     *)
Finish ==
    /\ pc = "finish"
    /\ IF ~ id_raises /\ source_kind # "nolen"
       THEN /\ result' = [status |-> status,
                          processed_count |-> processed_count,
                          failed_count |-> failed_count,
                          errors |-> errors,
                          total_items |-> IF source_kind = "list"
                                          THEN Len(source_data) ELSE 0]
            /\ pc' = "done"
       ELSE /\ pc' = "raised"
            /\ UNCHANGED result
    /\ UNCHANGED <<id_raises, batch_size, validators, source_kind, source_data,
                   batch_start, batch, k, processed_item, processed_count,
                   failed_count, errors, b_processed, b_failed, b_errors,
                   status, calls, batches>>

(* ============================ PipelineManager ========================== *)
Callers == 1..MaxCallers

(* timedelta(hours=24), in clock units of 12 hours *)
FreshnessWindow == 2

(* self.pipelines after load_config: the two default entries of           *)
(* create_default_config plus one entry with enabled: false                *)
pipelines ==
    [pubmed_metadata     |-> [enabled |-> TRUE,  dependencies |-> <<>>],
     document_processing |-> [enabled |-> TRUE,  dependencies |-> <<"pubmed_metadata">>],
     disabled_pipeline   |-> [enabled |-> FALSE, dependencies |-> <<>>]]

CallNames == DOMAIN pipelines \cup {"unknown_pipeline"}

NoTime == -1

PipelineExecution(name, t) ==
    [pipeline_name |-> name, execution_id |-> <<name, t>>, start_time |-> t,
     end_time |-> NoTime, status |-> "RUNNING", result |-> "None",
     error_message |-> "None"]

MgrInit ==
    /\ executions = <<>>
    /\ running_pipelines = [n \in DOMAIN pipelines |-> 0]
    /\ now = 0
    /\ mpc = [t \in Callers |-> "idle"]
    /\ mname = [t \in Callers |-> "unknown_pipeline"]
    /\ mexec = [t \in Callers |-> 0]
    /\ mret = [t \in Callers |-> "pending"]
    /\ mout = [t \in Callers |-> "none"]
    /\ ncalls = 0

check_dependenciesMut(config) ==
    \A d \in 1..Len(config.dependencies) :
        \E i \in 1..Len(executions) :
            /\ executions[i].pipeline_name = config.dependencies[d]
            /\ executions[i].status = "SUCCESS"

(* _check_dependencies: every dependency has a SUCCESS execution that     *)
(* ended less than 24 hours ago                                           *)
check_dependencies(config) ==
    \A d \in 1..Len(config.dependencies) :
        \E i \in 1..Len(executions) :
            /\ executions[i].pipeline_name = config.dependencies[d]
            /\ executions[i].status = "SUCCESS"
            /\ executions[i].end_time # NoTime
            /\ executions[i].end_time > now - FreshnessWindow

(* a caller enters run_pipeline(name) *)
Call(t, name) ==
    /\ mpc[t] = "idle"
    /\ ncalls < MaxCalls
    /\ ncalls' = ncalls + 1
    /\ mpc' = [mpc EXCEPT ![t] = "check"]
    /\ mname' = [mname EXCEPT ![t] = name]
    /\ UNCHANGED <<executions, running_pipelines, now, mexec, mret, mout>>

RejectedMut(name) ==
    \/ name \notin DOMAIN pipelines
    \/ running_pipelines[name] # 0

(* the three early `return None` of lines 185-198 *)
Rejected(name) ==
    \/ name \notin DOMAIN pipelines
    \/ ~ pipelines[name].enabled
    \/ running_pipelines[name] # 0

(* lines 185-198: unknown name, disabled config, already running *)
CheckStart(t) ==
    /\ mpc[t] = "check"
    /\ IF Rejected(mname[t])
       THEN /\ mpc' = [mpc EXCEPT ![t] = "returned"]
            /\ mret' = [mret EXCEPT ![t] = "None"]
       ELSE /\ mpc' = [mpc EXCEPT ![t] = "deps"]
            /\ UNCHANGED mret
    /\ UNCHANGED <<executions, running_pipelines, now, mname, mexec, mout, ncalls>>

(* lines 200-203 *)
CheckDeps(t) ==
    /\ mpc[t] = "deps"
    /\ IF ~ check_dependencies(pipelines[mname[t]])
       THEN /\ mpc' = [mpc EXCEPT ![t] = "returned"]
            /\ mret' = [mret EXCEPT ![t] = "None"]
       ELSE /\ mpc' = [mpc EXCEPT ![t] = "accept"]
            /\ UNCHANGED mret
    /\ UNCHANGED <<executions, running_pipelines, now, mname, mexec, mout, ncalls>>

(* lines 205-215: create the Execution, register the name, append *)
Accept(t) ==
    /\ mpc[t] = "accept"
    /\ executions' = Append(executions, PipelineExecution(mname[t], now))
    /\ running_pipelines' = [running_pipelines EXCEPT ![mname[t]] = Len(executions) + 1]
    /\ mexec' = [mexec EXCEPT ![t] = Len(executions) + 1]
    /\ mpc' = [mpc EXCEPT ![t] = "instantiate"]
    /\ UNCHANGED <<now, mname, mret, mout, ncalls>>

RecordResultMut(ex, res) ==
    [ex EXCEPT !.start_time = now, !.end_time = now,
               !.status = IF res = "None" THEN "FAILED" ELSE res,
               !.result = res]

(* lines 225-227 *)
RecordResult(ex, res) ==
    [ex EXCEPT !.end_time = now,
               !.status = IF res = "None" THEN "FAILED" ELSE res,
               !.result = res]

(* lines 237-243: `except Exception` *)
RecordError(ex) ==
    [ex EXCEPT !.end_time = now, !.status = "FAILED", !.error_message = "failed with error"]

(* lines 247-250: `finally` *)
Release(name) ==
    IF running_pipelines[name] # 0
    THEN [running_pipelines EXCEPT ![name] = 0]
    ELSE running_pipelines

ReturnValueMut(out) ==
    CASE out \in {"SUCCESS", "FAILED", "None"} -> out
      [] OTHER -> "raised"

(* `return result` (line 235), `return None` (line 245), or the exception *)
(* goes on to the caller when no except clause matches it                 *)
ReturnValue(out) ==
    CASE out \in {"SUCCESS", "FAILED", "None"} -> out
      [] out = "Exception" -> "None"
      [] out = "BaseException" -> "raised"

(* how the try block of run_pipeline is left; out is what the call in it did *)
Leave(t, out) ==
    /\ running_pipelines' = Release(mname[t])
    /\ mpc' = [mpc EXCEPT ![t] = "returned"]
    /\ mout' = [mout EXCEPT ![t] = out]
    /\ mret' = [mret EXCEPT ![t] = ReturnValue(out)]
    /\ CASE out \in {"SUCCESS", "FAILED", "None"} ->
              executions' = [executions EXCEPT ![mexec[t]] = RecordResult(@, out)]
         [] out = "Exception" ->
              executions' = [executions EXCEPT ![mexec[t]] = RecordError(@)]
         [] out = "BaseException" ->    \* KeyboardInterrupt, SystemExit: not an Exception
              UNCHANGED executions

(* line 219: _create_pipeline_instance (import, getattr, constructor) *)
Instantiate(t) ==
    /\ mpc[t] = "instantiate"
    /\ \E out \in {"ok", "Exception", "BaseException"} :
         IF out = "ok"
         THEN /\ mpc' = [mpc EXCEPT ![t] = "run"]
              /\ UNCHANGED <<executions, running_pipelines, mret, mout>>
         ELSE Leave(t, out)
    /\ UNCHANGED <<now, mname, mexec, ncalls>>

(* lines 222-250: _run_with_timeout returns pipeline.run()'s result, or    *)
(* None, or the body raises                                               *)
RunBody(t) ==
    /\ mpc[t] = "run"
    /\ \E out \in {"SUCCESS", "FAILED", "None", "Exception", "BaseException"} :
         Leave(t, out)
    /\ UNCHANGED <<now, mname, mexec, ncalls>>

(* the caller has taken the return value (or the exception): the frame   *)
(* of the call is gone                                                    *)
Return(t) ==
    /\ mpc[t] = "returned"
    /\ mpc' = [mpc EXCEPT ![t] = "idle"]
    /\ mname' = [mname EXCEPT ![t] = "unknown_pipeline"]
    /\ mexec' = [mexec EXCEPT ![t] = 0]
    /\ mret' = [mret EXCEPT ![t] = "pending"]
    /\ mout' = [mout EXCEPT ![t] = "none"]
    /\ UNCHANGED <<executions, running_pipelines, now, ncalls>>

(* time passes *)
Tick ==
    /\ now < MaxClock
    /\ now' = now + 1
    /\ UNCHANGED <<executions, running_pipelines, mpc, mname, mexec, mret, mout, ncalls>>

(* a call that starts while no other call is in progress *)
CallSeq(t, name) ==
    /\ \A u \in Callers : mpc[u] = "idle"
    /\ Call(t, name)

MgrStep ==
    \/ \E t \in Callers : CheckStart(t)
    \/ \E t \in Callers : CheckDeps(t)
    \/ \E t \in Callers : Accept(t)
    \/ \E t \in Callers : Instantiate(t)
    \/ \E t \in Callers : RunBody(t)
    \/ \E t \in Callers : Return(t)
    \/ Tick

(* the pipeline engine at rest while the manager is observed *)
PipeIdle ==
    /\ PipeInit
    /\ id_raises = FALSE
    /\ batch_size = 1
    /\ validators = 0

(* ----------------- PipelineManager.__init__: configuration ------------- *)
(* a value read from YAML/JSON is a str; a member of ScheduleType is not   *)
StrV(x)  == [tag |-> "str",  v |-> x]
EnumV(x) == [tag |-> "enum", v |-> x]

ScheduleType ==
    [MANUAL |-> EnumV("manual"), HOURLY |-> EnumV("hourly"),
     DAILY  |-> EnumV("daily"),  WEEKLY |-> EnumV("weekly")]

SchedNames == {"pubmed_metadata", "document_processing", "custom"}

(* what an entry of the file's `pipelines` mapping can say *)
FileSchedules == {"omitted", "manual", "hourly", "daily", "weekly"}

FileEntries ==
    [name : SchedNames, enabled : BOOLEAN, schedule_type : FileSchedules,
     unknown_key : BOOLEAN]

EntryLists ==
    { es \in UNION { [1..n -> FileEntries] : n \in 0..MaxEntries } :
        \A i, j \in 1..Len(es) : i # j => es[i].name # es[j].name }

ConfigFiles ==
    {[state |-> "absent", entries |-> <<>>], [state |-> "unparseable", entries |-> <<>>]}
        \cup { [state |-> "entries", entries |-> es] : es \in EntryLists }

(* PipelineConfig(name=name, **config): schedule_type is stored as given *)
PipelineConfig(entry) ==
    [name |-> entry.name,
     enabled |-> entry.enabled,
     schedule_type |-> IF entry.schedule_type = "omitted" THEN ScheduleType.MANUAL
                       ELSE StrV(entry.schedule_type)]

(* self.pipelines[name] = config *)
Put(ps, config) ==
    IF \E i \in 1..Len(ps) : ps[i].name = config.name
    THEN [i \in 1..Len(ps) |-> IF ps[i].name = config.name THEN config ELSE ps[i]]
    ELSE Append(ps, config)

(* the loop of lines 93-97 over the first n entries; an entry with an      *)
(* unknown key makes the PipelineConfig constructor raise TypeError       *)
RECURSIVE LoadEntries(_, _)
LoadEntries(entries, n) ==
    IF n = 0 THEN [ps |-> <<>>, raised |-> FALSE]
    ELSE LET before == LoadEntries(entries, n - 1) IN
         IF before.raised THEN before
         ELSE IF entries[n].unknown_key THEN [before EXCEPT !.raised = TRUE]
         ELSE [before EXCEPT !.ps = Put(@, PipelineConfig(entries[n]))]

default_config ==
    <<[name |-> "pubmed_metadata", enabled |-> TRUE, schedule_type |-> "daily",
       unknown_key |-> FALSE],
      [name |-> "document_processing", enabled |-> TRUE, schedule_type |-> "hourly",
       unknown_key |-> FALSE]>>

(* yaml.dump(default_config) sorts the keys of the mapping it writes *)
DefaultFile ==
    [state |-> "entries", entries |-> <<default_config[2], default_config[1]>>]

(* create_default_config, lines 105-148: write the file, add the defaults *)
create_default_config(ps) ==
    [file |-> DefaultFile,
     ps |-> Put(Put(ps, PipelineConfig(default_config[1])), PipelineConfig(default_config[2]))]

(* load_config, lines 79-103 *)
load_config(file) ==
    IF file.state = "absent" THEN create_default_config(<<>>)
    ELSE IF file.state = "unparseable" THEN create_default_config(<<>>)
    ELSE LET loaded == LoadEntries(file.entries, Len(file.entries)) IN
         IF loaded.raised THEN create_default_config(loaded.ps)
         ELSE [file |-> file, ps |-> loaded.ps]

(* one round of the loop of setup_schedules, lines 152-172: the triggers   *)
(* registered for config.  When no comparison with a ScheduleType member   *)
(* succeeds, line 169 reads .value of a str and the AttributeError is      *)
(* caught at line 171; a job registered before line 169 would stay.        *)
schedule_one(config) ==
    IF ~ config.enabled \/ config.schedule_type = ScheduleType.MANUAL THEN {}
    ELSE IF config.schedule_type = ScheduleType.HOURLY
         THEN {[name |-> config.name, every |-> "hour"]}
    ELSE IF config.schedule_type = ScheduleType.DAILY
         THEN {[name |-> config.name, every |-> "day"]}
    ELSE IF config.schedule_type = ScheduleType.WEEKLY
         THEN {[name |-> config.name, every |-> "week"]}
    ELSE {}

SchedInit ==
    /\ config_file \in ConfigFiles
    /\ self_pipelines = <<>>
    /\ jobs = {}
    /\ spc = "load_config"

SchedIdle ==
    /\ config_file = [state |-> "absent", entries |-> <<>>]
    /\ self_pipelines = <<>>
    /\ jobs = {}
    /\ spc = "idle"

(* __init__, line 73 *)
LoadConfig ==
    /\ spc = "load_config"
    /\ config_file' = load_config(config_file).file
    /\ self_pipelines' = load_config(config_file).ps
    /\ spc' = "setup_schedules"
    /\ UNCHANGED jobs

(* __init__, line 76 *)
SetupSchedules ==
    /\ spc = "setup_schedules"
    /\ jobs' = jobs \cup UNION { schedule_one(self_pipelines[i]) : i \in 1..Len(self_pipelines) }
    /\ spc' = "constructed"
    /\ UNCHANGED <<config_file, self_pipelines>>

(* ------------------------------ validation.py -------------------------- *)
(* ValidationResult.score of a member: None, or a number *)
NoneScore == -1
Scores == {NoneScore, 0, 1}

(* what member j's validate(data) can do: raise, or return a result whose  *)
(* messages are its own                                                    *)
MemberOuts(j) ==
    {[raises |-> TRUE, errors |-> <<>>, warnings |-> <<>>, score |-> NoneScore]}
        \cup [raises : {FALSE},
              errors : {<<>>, <<[by |-> j, msg |-> "e1"]>>,
                        <<[by |-> j, msg |-> "e1"], [by |-> j, msg |-> "e2"]>>},
              warnings : {<<>>, <<[by |-> j, msg |-> "w1"]>>},
              score : Scores]

MemberLists ==
    { ms \in UNION { [1..n -> UNION { MemberOuts(j) : j \in 1..n }] : n \in 0..MaxMembers } :
        \A j \in 1..Len(ms) : ms[j] \in MemberOuts(j) }

(* sum(scores) / len(scores), kept as the pair of its two operands *)
NoScore == [sum |-> 0, count |-> 0]

RECURSIVE SumSeq(_)
SumSeq(q) == IF q = <<>> THEN 0 ELSE Head(q) + SumSeq(Tail(q))

Average(scores) == IF scores # <<>> THEN [sum |-> SumSeq(scores), count |-> Len(scores)] ELSE NoScore

Unset ==
    [raised |-> FALSE, is_valid |-> FALSE, errors |-> <<>>, warnings |-> <<>>,
     score |-> NoScore]

Raised == [Unset EXCEPT !.raised = TRUE]

CompositeVerdictMut(all_errors) == TRUE

(* `is_valid=len(all_errors) == 0`, line 485 *)
CompositeVerdict(all_errors) == Len(all_errors) = 0

(* the for loop of CompositeValidator.validate from member j on, lines     *)
(* 472-482; nothing catches what validator.validate(data) raises           *)
RECURSIVE CompositeLoop(_, _, _, _)
CompositeLoop(outs, stop, j, acc) ==
    IF j > Len(outs) THEN acc
    ELSE IF outs[j].raises THEN [acc EXCEPT !.raised = TRUE]
    ELSE LET after == [acc EXCEPT !.all_errors = @ \o outs[j].errors,
                                  !.all_warnings = @ \o outs[j].warnings,
                                  !.scores = IF outs[j].score # NoneScore
                                             THEN Append(@, outs[j].score) ELSE @]
         IN IF stop /\ outs[j].errors # <<>> THEN after
            ELSE CompositeLoop(outs, stop, j + 1, after)

(* CompositeValidator.validate, lines 466-489 *)
composite_validate(outs, stop) ==
    LET acc == CompositeLoop(outs, stop, 1,
                   [raised |-> FALSE, all_errors |-> <<>>, all_warnings |-> <<>>,
                    scores |-> <<>>])
    IN IF acc.raised THEN Raised
       ELSE [raised |-> FALSE,
             is_valid |-> CompositeVerdict(acc.all_errors),
             errors |-> acc.all_errors,
             warnings |-> acc.all_warnings,
             score |-> Average(acc.scores)]

(* the pydantic error types e.errors() can list: a required field is       *)
(* absent, a value has the wrong type, a field the model forbids is given  *)
ErrorTypes == {"missing", "int_parsing", "extra_forbidden"}

(* what the model constructor does: returns, raises ValidationError with   *)
(* a list of errors, or raises something else                              *)
SchemaInputs ==
    {[kind |-> "ok", types |-> <<>>], [kind |-> "Exception", types |-> <<>>]}
        \cup { [kind |-> "ValidationError", types |-> ts] :
                 ts \in UNION { [1..n -> ErrorTypes] : n \in 1..MaxSchemaErrors } }

NoSchemaInput == [kind |-> "none", types |-> <<>>]

(* line 51: `not self.strict and error['type'] in ['missing', 'extra']` *)
Demoted(is_strict, type) == ~ is_strict /\ type \in {"missing", "extra"}

(* the loop of lines 47-54: the messages kept as errors (or as warnings) *)
RECURSIVE Sort(_, _, _)
Sort(types, is_strict, as_warning) ==
    IF types = <<>> THEN <<>>
    ELSE (IF Demoted(is_strict, Head(types)) = as_warning THEN <<Head(types)>> ELSE <<>>)
             \o Sort(Tail(types), is_strict, as_warning)

(* SchemaValidator.validate, lines 30-66 *)
schema_validate(input, is_strict) ==
    IF input.kind = "ok"
    THEN [Unset EXCEPT !.is_valid = TRUE]
    ELSE IF input.kind = "ValidationError"
    THEN [Unset EXCEPT !.is_valid = Len(Sort(input.types, is_strict, FALSE)) = 0,
                       !.errors = Sort(input.types, is_strict, FALSE),
                       !.warnings = Sort(input.types, is_strict, TRUE)]
    ELSE [Unset EXCEPT !.errors = <<"Validation error">>]

ValResultsUnset ==
    /\ composite_result = Unset
    /\ item_result = Unset
    /\ schema_result = Unset
    /\ vdone = {}

ValIdle ==
    /\ members = <<>>
    /\ stop_on_first_error = FALSE
    /\ schema_input = NoSchemaInput
    /\ strict = TRUE
    /\ ValResultsUnset

(* a validator chain and a configuration of it, or a record and a mode *)
ValInit ==
    /\ ValResultsUnset
    /\ \/ /\ members \in MemberLists
          /\ stop_on_first_error \in BOOLEAN
          /\ schema_input = NoSchemaInput
          /\ strict = TRUE
       \/ /\ members = <<>>
          /\ stop_on_first_error = FALSE
          /\ schema_input \in SchemaInputs
          /\ strict \in BOOLEAN

CompositeValidate ==
    /\ schema_input = NoSchemaInput
    /\ "composite" \notin vdone
    /\ composite_result' = composite_validate(members, stop_on_first_error)
    /\ vdone' = vdone \cup {"composite"}
    /\ UNCHANGED <<members, stop_on_first_error, item_result, schema_input, strict,
                   schema_result>>

ValidateItemChain ==
    /\ schema_input = NoSchemaInput
    /\ "item" \notin vdone
    /\ item_result' =
          LET r == validate_item(members)
          IN [raised |-> r.raised, is_valid |-> r.is_valid, errors |-> r.errors,
              warnings |-> r.warnings, score |-> NoScore]
    /\ vdone' = vdone \cup {"item"}
    /\ UNCHANGED <<members, stop_on_first_error, composite_result, schema_input, strict,
                   schema_result>>

SchemaValidate ==
    /\ schema_input # NoSchemaInput
    /\ "schema" \notin vdone
    /\ schema_result' = schema_validate(schema_input, strict)
    /\ vdone' = vdone \cup {"schema"}
    /\ UNCHANGED <<members, stop_on_first_error, composite_result, item_result,
                   schema_input, strict>>

(* ------------------------------- crud.py ------------------------------- *)
(* records of a model with primary key id, a field u and a field v *)
Keys == {"k1", "k2"}
UVals == {"u1", "u2"}
Vals == {"v1", "v2"}

Rows == [id : Keys, u : UVals, v : Vals]

NoRow == [id |-> "none", u |-> "none", v |-> "none"]

(* what a table can hold: one row per primary key, and per u under UNIQUE (u) *)
TableOk(tbl, unique) ==
    \A x, y \in tbl : x # y => x.id # y.id /\ (unique => x.u # y.u)

(* INSERT OR REPLACE: rows that conflict on the primary key or on a        *)
(* UNIQUE constraint are deleted, then the row is inserted                 *)
InsertOrReplace(tbl, unique, r) ==
    (tbl \ { x \in tbl : x.id = r.id \/ (unique /\ x.u = r.u) }) \cup {r}

(* SELECT * FROM table WHERE id = ? *)
SelectById(tbl, key) == { x \in tbl : x.id = key }

(* db_connector, sql_connection_wrapper.py:18-21: the connection is closed *)
(* without commit(), which rolls back the transaction sqlite3 opened for   *)
(* the INSERT/UPDATE/DELETE statements executed on it                      *)
Close(committed, work) == committed

(* what can go wrong with a record inside bulk_insert: model_dump raises,  *)
(* json.dumps of a list value raises, conn.execute raises                  *)
Faults == {"none", "model_dump", "json_dumps", "execute"}

(* the records handed to bulk_insert: one candidate row per key *)
BulkRows == { r \in Rows : r.v = "v1" /\ (r.id = "k1" <=> r.u = "u1") }

BulkRecords == [row : BulkRows, fault : Faults]

DataLists == UNION { [1..n -> BulkRecords] : n \in 0..MaxBulk }

NoRet == [raised |-> FALSE, m |-> 0, n |-> 0]

(* the loop of bulk_insert from record idx on, lines 144-156.  The except  *)
(* handler calls item.model_dump() again (line 156), so a record whose     *)
(* model_dump raises makes the handler raise                               *)
RECURSIVE BulkLoop(_, _, _, _)
BulkLoop(data_list, unique, idx, acc) ==
    IF idx > Len(data_list) THEN acc
    ELSE IF data_list[idx].fault = "model_dump" THEN [acc EXCEPT !.raised = TRUE]
    ELSE IF data_list[idx].fault \in {"json_dumps", "execute"}
         THEN BulkLoop(data_list, unique, idx + 1, acc)
    ELSE BulkLoop(data_list, unique, idx + 1,
                  [acc EXCEPT !.work = InsertOrReplace(@, unique, data_list[idx].row),
                              !.successful = @ + 1])

(* bulk_insert, lines 127-158: what it gives back and the rows its         *)
(* connection holds when it is closed                                      *)
bulk_insert(tbl, unique, data_list) ==
    IF Len(data_list) = 0 THEN [ret |-> NoRet, work |-> tbl]
    ELSE IF data_list[1].fault = "model_dump"      \* line 138, outside the try
         THEN [ret |-> [NoRet EXCEPT !.raised = TRUE], work |-> tbl]
    ELSE LET acc == BulkLoop(data_list, unique, 1,
                             [raised |-> FALSE, work |-> tbl, successful |-> 0])
         IN [ret |-> [raised |-> acc.raised,
                      m |-> IF acc.raised THEN 0 ELSE acc.successful,
                      n |-> IF acc.raised THEN 0 ELSE Len(data_list)],
             work |-> acc.work]

(* UPDATE table SET v = ? WHERE id_field = ? *)
Update(tbl, id_field, id_value, newv) ==
    { IF x[id_field] = id_value THEN [x EXCEPT !.v = newv] ELSE x : x \in tbl }

(* SELECT * FROM table WHERE id_field = ? *)
SelectBy(tbl, id_field, id_value) == { x \in tbl : x[id_field] = id_value }

IdFields == {"id", "u"}

IdValues(id_field) == IF id_field = "id" THEN Keys ELSE UVals

(* the (id_value, updates) tuples given to bulk_update; the UPDATE of an   *)
(* entry either executes or raises (no such column, empty update map)      *)
UpdateEntries == [id : Keys, v : {"v2"}, fault : {"none", "execute"}]

UpdateLists == UNION { [1..n -> UpdateEntries] : n \in 0..MaxBulk }

(* `conn.execute(sql, values)` then `total += 1`, lines 194-195: the entry *)
(* is counted when execute returns, whatever its rowcount                  *)
Counted(tbl, entry) == entry.fault = "none"

(* the loop of bulk_update from entry idx on, lines 189-198 *)
RECURSIVE UpdateLoop(_, _, _)
UpdateLoop(entries, idx, acc) ==
    IF idx > Len(entries) THEN acc
    ELSE IF entries[idx].fault = "execute" THEN UpdateLoop(entries, idx + 1, acc)
    ELSE UpdateLoop(entries, idx + 1,
             [acc EXCEPT !.work = Update(@, "id", entries[idx].id, entries[idx].v),
                         !.total = IF Counted(acc.work, entries[idx]) THEN @ + 1 ELSE @])

(* bulk_update, lines 160-200 *)
bulk_update(tbl, entries) ==
    IF Len(entries) = 0 THEN [ret |-> NoRet, work |-> tbl]
    ELSE LET acc == UpdateLoop(entries, 1, [work |-> tbl, total |-> 0])
         IN [ret |-> [raised |-> FALSE, m |-> acc.total, n |-> Len(entries)],
             work |-> acc.work]

NoCall == [op |-> "none", field |-> "none", key |-> "none", row |-> NoRow,
           data_list |-> <<>>, entries |-> <<>>, rows |-> {}, ret |-> NoRet,
           work |-> {}]

(* the database file as found: written earlier through the committing      *)
(* connector of utils/db/handler.py, or empty                              *)
CrudInit ==
    /\ has_unique \in BOOLEAN
    /\ db \in { tbl \in SUBSET Rows : TableOk(tbl, has_unique) }
    /\ last_insert = [key \in Keys |-> NoRow]
    /\ last = NoCall

CrudIdle ==
    /\ has_unique = FALSE
    /\ db = {}
    /\ last_insert = [key \in Keys |-> NoRow]
    /\ last = NoCall

(* CRUD.insert(table, model, data), lines 25-41 *)
CrudInsert(data) ==
    /\ db' = Close(db, InsertOrReplace(db, has_unique, data))
    /\ last_insert' = [last_insert EXCEPT ![data.id] = data]
    /\ last' = [NoCall EXCEPT !.op = "insert", !.key = data.id, !.row = data,
                              !.work = InsertOrReplace(db, has_unique, data)]
    /\ UNCHANGED has_unique

(* CRUD.get(table, model, id_field, id_value), lines 43-61 *)
CrudGet(key) ==
    /\ last' = [NoCall EXCEPT !.op = "get", !.key = key, !.rows = SelectById(db, key)]
    /\ UNCHANGED <<db, has_unique, last_insert>>

(* CRUD.bulk_insert(table, model, data_list), lines 127-158 *)
CrudBulkInsert(data_list) ==
    /\ db' = Close(db, bulk_insert(db, has_unique, data_list).work)
    /\ last_insert' = [key \in Keys |-> NoRow]
    /\ last' = [NoCall EXCEPT !.op = "bulk_insert", !.data_list = data_list,
                              !.ret = bulk_insert(db, has_unique, data_list).ret,
                              !.work = bulk_insert(db, has_unique, data_list).work]
    /\ UNCHANGED has_unique

(* CRUD.update(table, model, updates, id_field, id_value), lines 63-79: the *)
(* rows returned are read by CRUD.get, which opens a connection of its own  *)
CrudUpdate(id_field, id_value, newv) ==
    /\ db' = Close(db, Update(db, id_field, id_value, newv))
    /\ last_insert' = [key \in Keys |-> NoRow]
    /\ last' = [NoCall EXCEPT !.op = "update", !.field = id_field, !.key = id_value,
                              !.row = [NoRow EXCEPT !.v = newv],
                              !.rows = SelectBy(db, id_field, id_value),
                              !.work = Update(db, id_field, id_value, newv)]
    /\ UNCHANGED has_unique

(* CRUD.bulk_update(table, id_field, data_list), lines 160-200 *)
CrudBulkUpdate(entries) ==
    /\ db' = Close(db, bulk_update(db, entries).work)
    /\ last_insert' = [key \in Keys |-> NoRow]
    /\ last' = [NoCall EXCEPT !.op = "bulk_update", !.entries = entries,
                              !.ret = bulk_update(db, entries).ret,
                              !.work = bulk_update(db, entries).work]
    /\ UNCHANGED has_unique

(* ------------------ crud.py: schema derivation, typed rows ------------- *)
(* field annotations of a model, after _resolve_base_type has unwrapped    *)
(* Annotated[...]                                                          *)
Annotations == {"str", "int", "float", "bool", "Optional[int]"}

(* CRUD.type_mapping.get(raw_type, "TEXT"), lines 13-18 and 104 *)
type_mapping(annotation) ==
    CASE annotation = "str" -> "TEXT"
      [] annotation = "int" -> "INTEGER"
      [] annotation = "float" -> "REAL"
      [] annotation = "bool" -> "BOOLEAN"
      [] OTHER -> "TEXT"

(* model.model_fields of the models tried: the fields id, count, active    *)
(* with one annotation each                                                *)
ModelDefs ==
    { <<[name |-> "id", annotation |-> "str"],
        [name |-> "count", annotation |-> a],
        [name |-> "active", annotation |-> b]>> :
          a \in {"int", "Optional[int]"}, b \in {"bool", "int"} }

FieldNames == {"id", "count", "active"}

(* lines 101-108: one column per model field, in field order *)
Columns(model_fields, primary_key) ==
    [i \in 1..Len(model_fields) |->
        [name |-> model_fields[i].name,
         sql_type |-> type_mapping(model_fields[i].annotation),
         pk |-> model_fields[i].name = primary_key]]

(* CREATE TABLE IF NOT EXISTS, lines 114-121 *)
create_table_if_not_exists(cols, model_fields, primary_key) ==
    IF cols # <<>> THEN cols ELSE Columns(model_fields, primary_key)

(* records of the model {id: str, count: int, active: bool} *)
Records == [id : {"x1", "x2"}, count : {0, 5}, active : BOOLEAN]

NoRecord == [id |-> "none", count |-> 0, active |-> FALSE]

(* sqlite3 binds a Python bool as the integer 0 or 1 *)
Bind(record) ==
    [id |-> record.id, count |-> record.count,
     active |-> IF record.active THEN 1 ELSE 0]

(* the model built from dict(row), line 61: pydantic reads 0 and 1 as a bool *)
Load(row) == [id |-> row.id, count |-> row.count, active |-> row.active = 1]

StoredRows == { Bind(r) : r \in Records }

(* INSERT OR REPLACE on the table with primary key id *)
Upsert(tbl, row) == { x \in tbl : x.id # row.id } \cup {row}

NoTCall == [op |-> "none", key |-> "none", model_fields |-> <<>>, rows |-> {},
            raised |-> FALSE]

SchemaInit ==
    /\ tcols \in {<<>>} \cup { Columns(m, "id") : m \in ModelDefs }
    /\ trows \in { tbl \in SUBSET StoredRows :
                     /\ tcols = <<>> => tbl = {}
                     /\ \A x, y \in tbl : x # y => x.id # y.id }
    /\ t_inserted = NoRecord
    /\ tlast = NoTCall

SchemaIdle ==
    /\ tcols = <<>>
    /\ trows = {}
    /\ t_inserted = NoRecord
    /\ tlast = NoTCall

(* CRUD.create_table_if_not_exists(table, model, primary_key), lines 93-125; *)
(* DDL is not part of a transaction and stays                               *)
CreateTable(model_fields) ==
    /\ tcols' = create_table_if_not_exists(tcols, model_fields, "id")
    /\ tlast' = [NoTCall EXCEPT !.op = "create", !.model_fields = model_fields]
    /\ UNCHANGED <<trows, t_inserted>>

(* CRUD.insert on the table: raises while the table does not exist *)
TypedInsert(record) ==
    /\ IF tcols = <<>>
       THEN /\ tlast' = [NoTCall EXCEPT !.op = "insert", !.key = record.id, !.raised = TRUE]
            /\ UNCHANGED <<trows, t_inserted>>
       ELSE /\ trows' = Close(trows, Upsert(trows, Bind(record)))
            /\ t_inserted' = record
            /\ tlast' = [NoTCall EXCEPT !.op = "insert", !.key = record.id]
    /\ UNCHANGED tcols

(* CRUD.get(table, model, "id", key) *)
TypedGet(key) ==
    /\ IF tcols = <<>>
       THEN tlast' = [NoTCall EXCEPT !.op = "get", !.key = key, !.raised = TRUE]
       ELSE tlast' = [NoTCall EXCEPT !.op = "get", !.key = key,
                         !.rows = { Load(x) : x \in { y \in trows : y.id = key } }]
    /\ UNCHANGED <<tcols, trows, t_inserted>>

(* ------------------------- pipelines/main.py -------------------------- *)
(* PipelineStatus, base_pipeline.py lines 26-32: the value of each member *)
StatusValue(member) ==
    CASE member = "PENDING" -> "pending"
      [] member = "RUNNING" -> "running"
      [] member = "SUCCESS" -> "success"
      [] member = "FAILED" -> "failed"
      [] member = "CANCELLED" -> "cancelled"

Commands == {"none", "run", "scheduler", "status", "list"}

Pipelines == {"pubmed_metadata", "document_processing", "other"}

(* the result BasePipeline.run returns: its final status is SUCCESS or FAILED *)
RunResults ==
    [status : {"SUCCESS", "FAILED"}, processed_count : 0..MaxItems,
     execution_time : 0..MaxClock]

NoRunResult == [status |-> "PENDING", processed_count |-> 0, execution_time |-> 0]

Envs ==
    [kind : {"returns"}, result : RunResults]
      \cup [kind : {"Exception", "KeyboardInterrupt"}, result : {NoRunResult}]

Returned(res) == [kind |-> "returned", result |-> res, exc |-> "none"]

RaisedExc(exc) == [kind |-> "raised", result |-> NoRunResult, exc |-> exc]

NoWrapper == [kind |-> "none", result |-> NoRunResult, exc |-> "none"]

(* the f-string of line 192: processed_count/execution_time, a division by *)
(* zero raises ZeroDivisionError                                           *)
Rate(res) ==
    IF res.execution_time = 0
    THEN RaisedExc("ZeroDivisionError")
    ELSE Returned(res)

(* run_pubmed_metadata_pipeline, lines 148-199: env is what the pipeline's *)
(* construction, the table creation and pipeline.run() do                  *)
run_pubmed_metadata_pipeline(env) ==
    IF env.kind # "returns"
    THEN RaisedExc(env.kind)
    ELSE IF StatusValue(env.result.status) = "success"
         THEN Rate(env.result)
         ELSE Returned(env.result)

(* run_document_processing_pipeline, document_processing_pipeline.py       *)
(* lines 576-648: its summary has no rate                                  *)
run_document_processing_pipeline(env) ==
    IF env.kind # "returns" THEN RaisedExc(env.kind) ELSE Returned(env.result)

(* the call run_pipeline_command makes for args.pipeline, lines 92-107 *)
WrapperCall(args, env) ==
    CASE args.pipeline = "pubmed_metadata" -> run_pubmed_metadata_pipeline(env)
      [] args.pipeline = "document_processing" -> run_document_processing_pipeline(env)
      [] OTHER -> NoWrapper

ExitCode(code) == [kind |-> "returned", code |-> code, exc |-> "none"]

Propagates(exc) == [kind |-> "raised", code |-> -1, exc |-> exc]

NoOut == [kind |-> "none", code |-> -1, exc |-> "none"]

(* run_pipeline_command, lines 88-121 *)
run_pipeline_command(args, env) ==
    LET w == WrapperCall(args, env)
    IN  CASE w.kind = "none" -> ExitCode(1)
          [] w.kind = "raised" -> Propagates(w.exc)
          [] w.kind = "returned" ->
               IF StatusValue(w.result.status) = "success"
               THEN ExitCode(0)
               ELSE ExitCode(1)

(* run_scheduler_command, lines 123-133: start_scheduler loops until a     *)
(* KeyboardInterrupt, which it catches itself (pipeline_manager.py lines   *)
(* 317-330); an Exception gives 1                                          *)
run_scheduler_command(env) ==
    CASE env.kind = "Exception" -> ExitCode(1)
      [] env.kind = "KeyboardInterrupt" -> ExitCode(0)

(* run_status_command and run_list_command, lines 135-179: the body in a   *)
(* try that turns an Exception into 1                                      *)
run_status_command(env) ==
    CASE env.kind = "returns" -> ExitCode(0)
      [] env.kind = "Exception" -> ExitCode(1)
      [] env.kind = "KeyboardInterrupt" -> Propagates("KeyboardInterrupt")

run_list_command(env) ==
    CASE env.kind = "returns" -> ExitCode(0)
      [] env.kind = "Exception" -> ExitCode(1)
      [] env.kind = "KeyboardInterrupt" -> Propagates("KeyboardInterrupt")

(* main, lines 62-86 *)
main(args, env) ==
    IF args.command = "none"
    THEN ExitCode(1)
    ELSE LET r == CASE args.command = "run" -> run_pipeline_command(args, env)
                    [] args.command = "scheduler" -> run_scheduler_command(env)
                    [] args.command = "status" -> run_status_command(env)
                    [] args.command = "list" -> run_list_command(env)
         IN  CASE r.kind = "returned" -> r
               [] r.exc = "KeyboardInterrupt" -> ExitCode(0)
               [] OTHER -> ExitCode(1)

NoArgs == [command |-> "none", pipeline |-> "other"]

NoEnv == [kind |-> "Exception", result |-> NoRunResult]

(* the arguments and the behaviour of the called code; the scheduler never *)
(* returns by itself, and only the run command has a pipeline and a result *)
CliInit ==
    /\ cli_args \in [command : Commands, pipeline : Pipelines]
    /\ cli_env \in Envs
    /\ cli_args.command = "scheduler" => cli_env.kind # "returns"
    /\ cli_args.command # "run" =>
          /\ cli_args.pipeline = "other"
          /\ cli_env.result \in {NoRunResult, [NoRunResult EXCEPT !.status = "SUCCESS"]}
    /\ cli_args.command = "none" => cli_env = NoEnv
    /\ cli_entry = "none"
    /\ cli_wrapper = NoWrapper
    /\ cli_out = NoOut

CliIdle ==
    /\ cli_args = NoArgs
    /\ cli_env = NoEnv
    /\ cli_entry = "none"
    /\ cli_wrapper = NoWrapper
    /\ cli_out = NoOut

(* sys.exit(main()), line 182 *)
CliMain ==
    /\ cli_entry = "none"
    /\ cli_entry' = "main"
    /\ cli_wrapper' = IF cli_args.command = "run"
                      THEN WrapperCall(cli_args, cli_env)
                      ELSE NoWrapper
    /\ cli_out' = main(cli_args, cli_env)
    /\ UNCHANGED <<cli_args, cli_env>>

(* run_pipeline_command(args) called by itself, as the tests do *)
CliRunPipelineCommand ==
    /\ cli_entry = "none"
    /\ cli_args.command = "run"
    /\ cli_entry' = "run_pipeline_command"
    /\ cli_wrapper' = WrapperCall(cli_args, cli_env)
    /\ cli_out' = run_pipeline_command(cli_args, cli_env)
    /\ UNCHANGED <<cli_args, cli_env>>

(* ------------- DatabaseSource, DocumentProcessingPipeline ------------- *)
DocIds == {"d1", "d2", "d3"}

DocRows == [doc_id : DocIds, processed : BOOLEAN]

(* the tables with primary key doc_id *)
DocTables == { tbl \in SUBSET DocRows : \A x, y \in tbl : x # y => x.doc_id # y.doc_id }

(* DocumentProcessingPipeline.__init__, lines 63-67: the source it builds *)
db_source == [table_name |-> "documents", query_conditions |-> [processed |-> FALSE]]

(* CRUD.get(table, model, ALL=True), crud.py lines 52-54 and 61: rows is    *)
(* what SELECT * FROM table reads; a missing table raises; the model is    *)
(* called on every row, and calling None raises TypeError; no row gives [] *)
GetAll(exists, tbl, model) ==
    CASE ~ exists -> [raised |-> "OperationalError", rows |-> {}, ret |-> {}]
      [] exists /\ tbl = {} -> [raised |-> "none", rows |-> {}, ret |-> {}]
      [] exists /\ tbl # {} /\ model = "None" ->
           [raised |-> "TypeError", rows |-> tbl, ret |-> {}]
      [] OTHER -> [raised |-> "none", rows |-> tbl, ret |-> tbl]

(* DatabaseSource.validate_connection, data_sources.py lines 224-241 *)
validate_connection(source, exists, tbl) ==
    IF GetAll(exists, tbl, "None").raised = "none" THEN "True" ELSE "False"

(* DatabaseSource.fetch_metadata, lines 243-266: source.query_conditions   *)
(* is not used (line 248), the exception of CRUD.get is raised again       *)
fetch_metadata(source, exists, tbl) ==
    LET results == GetAll(exists, tbl, "None")
    IN  [raised |-> results.raised, selected |-> results.rows, items |-> results.ret]

(* _mark_as_processed, document_processing_pipeline.py lines 551-562:      *)
(* CRUD.update sets processed where doc_id matches, on a connection that   *)
(* is closed without commit                                                *)
mark_as_processed(tbl, doc_id) ==
    Close(tbl, { IF x.doc_id = doc_id THEN [x EXCEPT !.processed = TRUE] ELSE x : x \in tbl })

RECURSIVE ProcessItems(_, _)
(* the batches of BasePipeline.run over the fetched items, each item given *)
(* to process_item, which ends with _mark_as_processed (line 156)          *)
ProcessItems(tbl, items) ==
    IF items = {}
    THEN tbl
    ELSE LET doc == CHOOSE x \in items : TRUE
         IN  ProcessItems(mark_as_processed(tbl, doc.doc_id), items \ {doc})

NoDocRet == [ret |-> "none", raised |-> "none", status |-> "none", preflight |-> FALSE,
             selected |-> {}, handled |-> {}]

(* BasePipeline.run on the DatabaseSource, base_pipeline.py lines 115-142 *)
DocPipelineRun(source, exists, tbl) ==
    IF ~ ConnectionOk(validate_connection(source, exists, tbl))
    THEN [out |-> [NoDocRet EXCEPT !.status = "FAILED", !.raised = "ConnectionError"],
          table |-> tbl]
    ELSE LET f == fetch_metadata(source, exists, tbl)
         IN  IF f.raised # "none"
             THEN [out |-> [NoDocRet EXCEPT !.status = "FAILED", !.raised = f.raised,
                               !.preflight = TRUE, !.selected = f.selected],
                   table |-> tbl]
             ELSE [out |-> [NoDocRet EXCEPT !.status = "SUCCESS", !.preflight = TRUE,
                               !.selected = f.selected,
                               !.handled = { x.doc_id : x \in f.items }],
                   table |-> ProcessItems(tbl, f.items)]

NoDocCall == [op |-> "none", existed |-> FALSE, before |-> {}, out |-> NoDocRet]

(* the table as other programs left it: absent, empty or holding documents *)
DocInit ==
    /\ doc_table_exists \in BOOLEAN
    /\ documents \in DocTables
    /\ ~ doc_table_exists => documents = {}
    /\ d_last = NoDocCall

DocIdle ==
    /\ doc_table_exists = FALSE
    /\ documents = {}
    /\ d_last = NoDocCall

(* source.validate_connection() *)
DocValidateConnection ==
    /\ d_last' = [op |-> "validate_connection", existed |-> doc_table_exists,
                  before |-> documents,
                  out |-> [NoDocRet EXCEPT
                             !.ret = validate_connection(db_source, doc_table_exists,
                                                          documents)]]
    /\ UNCHANGED <<doc_table_exists, documents>>

(* source.fetch_metadata() *)
DocFetchMetadata ==
    LET f == fetch_metadata(db_source, doc_table_exists, documents)
    IN  /\ d_last' = [op |-> "fetch_metadata", existed |-> doc_table_exists,
                      before |-> documents,
                      out |-> [NoDocRet EXCEPT !.raised = f.raised,
                                 !.selected = f.selected,
                                 !.handled = { x.doc_id : x \in f.items }]]
        /\ UNCHANGED <<doc_table_exists, documents>>

(* DocumentProcessingPipeline(...).run() *)
DocRun ==
    LET r == DocPipelineRun(db_source, doc_table_exists, documents)
    IN  /\ d_last' = [op |-> "run", existed |-> doc_table_exists, before |-> documents,
                      out |-> r.out]
        /\ documents' = r.table
        /\ UNCHANGED doc_table_exists

(* run_document_processing_pipeline, lines 576-648: the table documents is *)
(* created if it does not exist, then the pipeline runs                    *)
DocRunWrapper ==
    LET r == DocPipelineRun(db_source, TRUE, documents)
    IN  /\ doc_table_exists' = TRUE
        /\ d_last' = [op |-> "run_document_processing_pipeline", existed |-> TRUE,
                      before |-> documents, out |-> r.out]
        /\ documents' = r.table

XIdle == SchedIdle /\ ValIdle /\ CrudIdle /\ SchemaIdle /\ CliIdle /\ DocIdle

Init == PipeInit /\ MgrInit /\ XIdle

InitMgr == PipeIdle /\ MgrInit /\ XIdle

MgrIdle ==
    /\ MgrInit
    /\ now = 0

InitSched == PipeIdle /\ MgrIdle /\ SchedInit /\ ValIdle /\ CrudIdle /\ SchemaIdle /\ CliIdle /\ DocIdle

NextSched ==
    \/ LoadConfig /\ UNCHANGED <<pvars, mvars, vvars, cvars, tvars, lvars, dvars>>
    \/ SetupSchedules /\ UNCHANGED <<pvars, mvars, vvars, cvars, tvars, lvars, dvars>>

SpecSched == InitSched /\ [][NextSched]_vars

InitVal == PipeIdle /\ MgrIdle /\ SchedIdle /\ ValInit /\ CrudIdle /\ SchemaIdle /\ CliIdle /\ DocIdle

NextVal ==
    \/ CompositeValidate /\ UNCHANGED <<pvars, mvars, svars, cvars, tvars, lvars, dvars>>
    \/ ValidateItemChain /\ UNCHANGED <<pvars, mvars, svars, cvars, tvars, lvars, dvars>>
    \/ SchemaValidate /\ UNCHANGED <<pvars, mvars, svars, cvars, tvars, lvars, dvars>>

SpecVal == InitVal /\ [][NextVal]_vars

InitCrud == PipeIdle /\ MgrIdle /\ SchedIdle /\ ValIdle /\ CrudInit /\ SchemaIdle /\ CliIdle /\ DocIdle

NextCrud ==
    \/ \E data \in Rows : CrudInsert(data) /\ UNCHANGED <<pvars, mvars, svars, vvars, tvars, lvars, dvars>>
    \/ \E key \in Keys : CrudGet(key) /\ UNCHANGED <<pvars, mvars, svars, vvars, tvars, lvars, dvars>>
    \/ \E data_list \in DataLists :
          CrudBulkInsert(data_list) /\ UNCHANGED <<pvars, mvars, svars, vvars, tvars, lvars, dvars>>
    \/ \E id_field \in IdFields : \E id_value \in IdValues(id_field), newv \in Vals :
          CrudUpdate(id_field, id_value, newv) /\ UNCHANGED <<pvars, mvars, svars, vvars, tvars, lvars, dvars>>
    \/ \E entries \in UpdateLists :
          CrudBulkUpdate(entries) /\ UNCHANGED <<pvars, mvars, svars, vvars, tvars, lvars, dvars>>

SpecCrud == InitCrud /\ [][NextCrud]_vars

InitSchema == PipeIdle /\ MgrIdle /\ SchedIdle /\ ValIdle /\ CrudIdle /\ SchemaInit /\ CliIdle /\ DocIdle

NextSchema ==
    \/ \E model_fields \in ModelDefs :
          CreateTable(model_fields) /\ UNCHANGED <<pvars, mvars, svars, vvars, cvars, lvars, dvars>>
    \/ \E record \in Records :
          TypedInsert(record) /\ UNCHANGED <<pvars, mvars, svars, vvars, cvars, lvars, dvars>>
    \/ \E key \in {"x1", "x2"} :
          TypedGet(key) /\ UNCHANGED <<pvars, mvars, svars, vvars, cvars, lvars, dvars>>

SpecSchema == InitSchema /\ [][NextSchema]_vars

InitCli == PipeIdle /\ MgrIdle /\ SchedIdle /\ ValIdle /\ CrudIdle /\ SchemaIdle /\ CliInit /\ DocIdle

NextCli ==
    \/ CliMain /\ UNCHANGED <<pvars, mvars, svars, vvars, cvars, tvars, dvars>>
    \/ CliRunPipelineCommand /\ UNCHANGED <<pvars, mvars, svars, vvars, cvars, tvars, dvars>>

SpecCli == InitCli /\ [][NextCli]_vars

InitDoc == PipeIdle /\ MgrIdle /\ SchedIdle /\ ValIdle /\ CrudIdle /\ SchemaIdle /\ CliIdle /\ DocInit

NextDoc ==
    \/ DocValidateConnection /\ UNCHANGED <<pvars, mvars, svars, vvars, cvars, tvars, lvars>>
    \/ DocFetchMetadata /\ UNCHANGED <<pvars, mvars, svars, vvars, cvars, tvars, lvars>>
    \/ DocRun /\ UNCHANGED <<pvars, mvars, svars, vvars, cvars, tvars, lvars>>
    \/ DocRunWrapper /\ UNCHANGED <<pvars, mvars, svars, vvars, cvars, tvars, lvars>>

SpecDoc == InitDoc /\ [][NextDoc]_vars

Next ==
    \/ ValidateConnection /\ UNCHANGED <<mvars, xvars>>
    \/ FetchMetadata /\ UNCHANGED <<mvars, xvars>>
    \/ NextBatch /\ UNCHANGED <<mvars, xvars>>
    \/ ValidateItem /\ UNCHANGED <<mvars, xvars>>
    \/ ProcessItem /\ UNCHANGED <<mvars, xvars>>
    \/ StoreItem /\ UNCHANGED <<mvars, xvars>>
    \/ BatchEnd /\ UNCHANGED <<mvars, xvars>>
    \/ Finish /\ UNCHANGED <<mvars, xvars>>

Spec == Init /\ [][Next]_vars

NextMgr ==
    \/ \E t \in Callers, name \in CallNames : Call(t, name) /\ UNCHANGED <<pvars, xvars>>
    \/ MgrStep /\ UNCHANGED <<pvars, xvars>>

SpecMgr == InitMgr /\ [][NextMgr]_vars

NextSeq ==
    \/ \E t \in Callers, name \in CallNames : CallSeq(t, name) /\ UNCHANGED <<pvars, xvars>>
    \/ MgrStep /\ UNCHANGED <<pvars, xvars>>

SpecSeq == InitMgr /\ [][NextSeq]_vars

(* =============================== properties ============================ *)
HookOps == {"process_item", "store_item"}

ItemOps == {"validate", "process_item", "store_item"}

Called(op, i) == \E p \in 1..Len(calls) : calls[p].op = op /\ calls[p].item = i

CalledWith(op, i, out) ==
    \E p \in 1..Len(calls) :
        calls[p].op = op /\ calls[p].item = i /\ calls[p].out = out

(* the log entries that end the handling of an item *)
Terminal(c) ==
    \/ c.op = "validate" /\ c.out \in {"invalid", "raise"}
    \/ c.op = "process_item" /\ c.out # "record"
    \/ c.op = "store_item"

NumTerminal == Cardinality({p \in 1..Len(calls) : Terminal(calls[p])})

(* run() has left the batch loop (or never entered it) *)
RunOver == pc \in {"finish", "done", "raised"}

(* the batch loop ran to its end: no exception reached run()'s own handler *)
LoopCompleted ==
    /\ RunOver
    /\ source_kind = "list"
    /\ ~ id_raises

(* a hook raised in the step just taken *)
HookRaisedNow ==
    /\ Len(calls') = Len(calls) + 1
    /\ calls'[Len(calls')].op \in HookOps
    /\ calls'[Len(calls')].out \in ExcKinds

(* C1: per-item fault isolation.  A step in which process_item or          *)
(* store_item raises adds exactly one failure and one error text, counts   *)
(* nothing as processed and goes on with the next item of the batch (or    *)
(* ends the batch, never the run); and once the loop has been entered,     *)
(* the run is over only after every fetched item was validated, every      *)
(* valid item processed and every record stored.                           *)
C1_RaiseStep ==
    HookRaisedNow =>
        /\ b_failed' = b_failed + 1
        /\ Len(b_errors') = Len(b_errors) + 1
        /\ b_processed' = b_processed
        /\ IF k < Len(batch) THEN pc' = "validate" /\ k' = k + 1
                             ELSE pc' = "batch_end"

C1_AllHandled ==
    (RunOver /\ Len(batches) > 0) =>
        \A i \in 1..Len(source_data) :
            /\ Called("validate", i)
            /\ CalledWith("validate", i, "valid") => Called("process_item", i)
            /\ CalledWith("process_item", i, "record") => Called("store_item", i)

C1_FaultIsolation == [][C1_RaiseStep]_vars /\ []C1_AllHandled

(* a hook raised on an item of the first batch, and a later item of a      *)
(* later batch was still stored                                            *)
C1_Witness ==
    /\ pc = "done"
    /\ Len(batches) >= 2
    /\ \E p, q \in 1..Len(calls) :
          /\ p < q
          /\ calls[p].op \in HookOps /\ calls[p].out \in ExcKinds
          /\ calls[p].item = 1
          /\ calls[q].op = "store_item" /\ calls[q].out = "True"
          /\ calls[q].item = Len(source_data)

(* C2: run() never lets an exception out to its caller.                    *)
C2_NeverRaises == pc # "raised"

(* a call is between its accepted start and its exit *)
Active(t) == mpc[t] \in {"instantiate", "run"}

(* C3: single-flight.  Two calls of run_pipeline that are both past their  *)
(* accepted start and not yet finished never carry the same name (the      *)
(* second of two overlapping calls for a name returned None instead and    *)
(* appended nothing).                                                      *)
C3_SingleFlight ==
    \A t, u \in Callers :
        (t # u /\ Active(t) /\ Active(u)) => mname[t] # mname[u]

(* C4: cleanup on every exit path of an accepted run_pipeline.  When the   *)
(* call has exited, its name is out of running_pipelines and its Execution *)
(* has end_time set and a status other than RUNNING; so an Execution is    *)
(* RUNNING only while its name is registered.                              *)
C4_CleanupOnExit ==
    /\ \A t \in Callers :
          (mpc[t] = "returned" /\ mexec[t] # 0) =>
              /\ running_pipelines[mname[t]] = 0
              /\ executions[mexec[t]].end_time # NoTime
              /\ executions[mexec[t]].status # "RUNNING"
    /\ \A i \in 1..Len(executions) :
          executions[i].status = "RUNNING" =>
              running_pipelines[executions[i].pipeline_name] # 0

(* C5 as stated: partial success is SUCCESS *)
C5_PartialSuccess ==
    (pc = "done" /\ LoopCompleted) =>
        /\ result.failed_count = 0 => result.status = "SUCCESS"
        /\ (result.processed_count > 0 /\ result.failed_count > 0)
              => result.status = "SUCCESS"
        /\ (result.processed_count = 0 /\ result.failed_count > 0)
              => result.status = "FAILED"

(* C5 (amended): the final status of a run whose batch loop completed is   *)
(* SUCCESS exactly when failed_count = 0, and FAILED as soon as one item   *)
(* failed, whether or not other items were processed.                      *)
C5_FinalStatus ==
    (pc = "done" /\ LoopCompleted) =>
        /\ result.failed_count = 0 => result.status = "SUCCESS"
        /\ result.failed_count > 0 => result.status = "FAILED"

C5_Witness ==
    /\ pc = "done" /\ LoopCompleted
    /\ result.processed_count > 0 /\ result.failed_count > 0
    /\ result.status = "FAILED"

(* store_item returned False in the step just taken *)
StoreFalseNow ==
    /\ Len(calls') = Len(calls) + 1
    /\ calls'[Len(calls')].op = "store_item"
    /\ calls'[Len(calls')].out = "False"

(* C6: a store_item that returns false makes the item a failure:           *)
(* failed_count goes up by one and processed_count does not.               *)
C6_StoreFalseFails ==
    [][StoreFalseNow => (b_failed' = b_failed + 1 /\ b_processed' = b_processed)]_vars

ConnectionFailed ==
    /\ Len(calls) >= 1
    /\ calls[1].op = "validate_connection"
    /\ calls[1].out \in {"False", "raise"}

(* C7: when validate_connection returns false or raises, nothing else is   *)
(* ever called on the source, the validators or the hooks, the run is over *)
(* at once, and the result it returns is FAILED with exactly one error     *)
(* entry and both counts 0.                                                *)
C7_ConnectionAbort ==
    ConnectionFailed =>
        /\ Len(calls) = 1
        /\ RunOver
        /\ pc = "done" =>
              /\ result.status = "FAILED"
              /\ Len(result.errors) = 1
              /\ result.processed_count = 0
              /\ result.failed_count = 0

C7_Witness ==
    /\ pc = "done"
    /\ ConnectionFailed
    /\ calls[1].out = "False"
    /\ result.status = "FAILED"

(* counts of the batch in progress that run() has not added up yet *)
Pending ==
    IF pc \in {"validate", "process", "store", "batch_end"}
    THEN b_processed + b_failed ELSE 0

(* C8: counting.  Every item whose handling has ended is counted exactly   *)
(* once, as processed or as failed; the two counts never exceed the number *)
(* of fetched items; and in the returned result they add up to             *)
(* total_items.                                                            *)
C8_Counting ==
    /\ processed_count + failed_count <= Len(source_data)
    /\ processed_count + failed_count + Pending = NumTerminal
    /\ NumTerminal <= Len(source_data)
    /\ pc = "done" =>
          result.processed_count + result.failed_count = result.total_items

C8_Witness ==
    /\ pc = "done"
    /\ Len(batches) >= 2
    /\ result.processed_count > 0 /\ result.failed_count > 0
    /\ result.processed_count + result.failed_count = MaxItems

RECURSIVE Flatten(_)
Flatten(ss) == IF ss = <<>> THEN <<>> ELSE Head(ss) \o Flatten(Tail(ss))

OpRank(op) == CASE op = "validate" -> 1 [] op = "process_item" -> 2
                [] op = "store_item" -> 3 [] OTHER -> 0

(* C9: batching and order.  The batches are contiguous slices of the       *)
(* fetched list, batch_size items each except a shorter last one, and      *)
(* together they are the whole list when the loop completes; the calls on  *)
(* items follow source order (validate, process_item, store_item of item i *)
(* all precede the validation of item j > i) and no item is handled twice. *)
C9_BatchOrder ==
    /\ \A j \in 1..Len(batches) :
          /\ Len(batches[j]) >= 1 /\ Len(batches[j]) <= batch_size
          /\ j < Len(batches) => Len(batches[j]) = batch_size
    /\ Len(Flatten(batches)) <= Len(source_data)
    /\ Flatten(batches) = SubSeq(source_data, 1, Len(Flatten(batches)))
    /\ LoopCompleted => Flatten(batches) = source_data
    /\ \A p, q \in 1..Len(calls) :
          (p < q /\ calls[p].op \in ItemOps /\ calls[q].op \in ItemOps) =>
              \/ calls[p].item < calls[q].item
              \/ /\ calls[p].item = calls[q].item
                 /\ OpRank(calls[p].op) < OpRank(calls[q].op)

C9_Witness ==
    /\ pc = "done"
    /\ batch_size = 2
    /\ batches = <<<<1, 2>>, <<3>>>>
    /\ \A i \in 1..3 : CalledWith("store_item", i, "True")

AllFailValidation ==
    /\ Len(source_data) >= 1
    /\ \A i \in 1..Len(source_data) :
          CalledWith("validate", i, "invalid") \/ CalledWith("validate", i, "raise")

(* C10: when every fetched item (there is at least one) fails validation,  *)
(* neither process_item nor store_item is ever called and the result has   *)
(* processed_count 0, failed_count = number of items and status FAILED.    *)
C10_AllInvalid ==
    /\ \A i \in 1..Len(source_data) :
          (CalledWith("validate", i, "invalid") \/ CalledWith("validate", i, "raise"))
              => ~ Called("process_item", i) /\ ~ Called("store_item", i)
    /\ (pc = "done" /\ AllFailValidation) =>
          /\ result.processed_count = 0
          /\ result.failed_count = Len(source_data)
          /\ result.status = "FAILED"

C10_Witness ==
    /\ pc = "done"
    /\ AllFailValidation
    /\ Len(source_data) = MaxItems
    /\ result.failed_count = MaxItems

HasFreshSuccess(a) ==
    \E i \in 1..Len(executions) :
        /\ executions[i].pipeline_name = a
        /\ executions[i].status = "SUCCESS"
        /\ executions[i].end_time # NoTime
        /\ now - executions[i].end_time < FreshnessWindow

DepsOf(name) == { pipelines[name].dependencies[d] : d \in 1..Len(pipelines[name].dependencies) }

StepsFrom(t, at) == mpc[t] = at /\ mpc'[t] # at

RejectedNow(t) ==
    \/ /\ StepsFrom(t, "check")
       /\ \/ mname[t] \notin DOMAIN pipelines
          \/ ~ pipelines[mname[t]].enabled
          \/ running_pipelines[mname[t]] # 0
    \/ /\ StepsFrom(t, "deps")
       /\ \E a \in DepsOf(mname[t]) : ~ HasFreshSuccess(a)

(* C11: a call of run_pipeline with an unknown name, a disabled config, a  *)
(* name already in running_pipelines or an unsatisfied dependency returns  *)
(* None at once, leaving executions and running_pipelines as they were; it *)
(* never reaches instantiation or the run, and while the name and the      *)
(* dependencies are being checked the call has created no Execution.       *)
C11_FailFast ==
    /\ [][\A t \in Callers :
            RejectedNow(t) =>
                /\ mpc'[t] = "returned"
                /\ mret'[t] = "None"
                /\ mexec'[t] = 0
                /\ mout'[t] = "none"
                /\ executions' = executions
                /\ running_pipelines' = running_pipelines]_vars
    /\ [](\A t \in Callers : mpc[t] \in {"check", "deps", "accept"} => mexec[t] = 0)
    /\ [](\A t \in Callers :
            mpc[t] \in {"instantiate", "run"} =>
                /\ mname[t] \in DOMAIN pipelines
                /\ pipelines[mname[t]].enabled
                /\ mexec[t] # 0)

C11_Witness ==
    /\ \E t \in Callers :
          /\ mpc[t] = "returned"
          /\ mname[t] = "disabled_pipeline"
          /\ mret[t] = "None"
          /\ mexec[t] = 0
    /\ Len(executions) >= 1
    /\ \E n \in DOMAIN pipelines : running_pipelines[n] # 0

(* C12: a call for B goes past the dependency check only if every          *)
(* dependency A of B has in the history an Execution with status SUCCESS   *)
(* whose end_time is set and less than the freshness window (24 hours) old *)
(* at that moment; otherwise the call returns None and no Execution is     *)
(* appended for B.                                                         *)
C12_DependencyGate ==
    [][\A t \in Callers :
          StepsFrom(t, "deps") =>
              IF \A a \in DepsOf(mname[t]) : HasFreshSuccess(a)
              THEN mpc'[t] = "accept"
              ELSE /\ mpc'[t] = "returned"
                   /\ mret'[t] = "None"
                   /\ executions' = executions]_vars

C12_Witness ==
    /\ now = FreshnessWindow
    /\ \E t \in Callers :
          /\ mpc[t] = "returned"
          /\ mname[t] = "document_processing"
          /\ mret[t] = "None"
          /\ mexec[t] = 0
    /\ \E i \in 1..Len(executions) :
          /\ executions[i].pipeline_name = "pubmed_metadata"
          /\ executions[i].status = "SUCCESS"
          /\ executions[i].end_time = 0
    /\ \A i \in 1..Len(executions) : executions[i].pipeline_name = "pubmed_metadata"

(* C13: whatever the name and whatever Exception the import, the           *)
(* instantiation or the run of the pipeline class raises, run_pipeline     *)
(* returns a PipelineResult or None to its caller; a call ends with an     *)
(* exception only when a BaseException outside Exception (an interrupt)    *)
(* arrives.                                                                *)
C13_ManagerNeverRaises ==
    \A t \in Callers :
        mpc[t] = "returned" =>
            /\ mout[t] # "BaseException" => mret[t] \in {"SUCCESS", "FAILED", "None"}
            /\ mout[t] = "Exception" => mret[t] = "None"
            /\ mout[t] \in {"SUCCESS", "FAILED", "None"} => mret[t] = mout[t]

C13_Witness ==
    \E t \in Callers :
        /\ mpc[t] = "returned"
        /\ mout[t] = "Exception"
        /\ mret[t] = "None"
        /\ executions[mexec[t]].error_message # "None"

(* C15: the executions list only grows; an Execution once appended keeps   *)
(* its position, pipeline_name, execution_id and start_time; and an        *)
(* end_time that is set is never before the start_time.                    *)
C15_AppendOnly ==
    /\ [][/\ Len(executions') >= Len(executions)
          /\ \A i \in 1..Len(executions) :
                /\ executions'[i].pipeline_name = executions[i].pipeline_name
                /\ executions'[i].execution_id = executions[i].execution_id
                /\ executions'[i].start_time = executions[i].start_time]_vars
    /\ [](\A i \in 1..Len(executions) :
            executions[i].end_time # NoTime =>
                executions[i].end_time >= executions[i].start_time)

C15_Witness ==
    /\ Len(executions) >= 2
    /\ \E i \in 1..Len(executions) :
          /\ executions[i].end_time # NoTime
          /\ executions[i].end_time > executions[i].start_time
    /\ \E i \in 1..Len(executions) : executions[i].end_time = NoTime

(* what a config's schedule_type says, whichever way it is stored *)
ScheduleOf(config) == config.schedule_type.v

(* C14: once the manager is constructed, a pipeline of self.pipelines has  *)
(* a trigger registered for it exactly when it is enabled and its schedule *)
(* is hourly, daily or weekly; disabled and manual pipelines have none.    *)
C14_Registration ==
    spc = "constructed" =>
        \A i \in 1..Len(self_pipelines) :
            (/\ self_pipelines[i].enabled
             /\ ScheduleOf(self_pipelines[i]) \in {"hourly", "daily", "weekly"})
                <=> (\E j \in jobs : j.name = self_pipelines[i].name)

(* the members a chain runs when none of them raises *)
RanMembers(ms, stop) ==
    { j \in 1..Len(ms) : ~ stop \/ \A i \in 1..(j - 1) : ms[i].errors = <<>> }

(* a member that is run raises *)
MemberRaises(ms, ran) == \E j \in ran : ms[j].raises /\ \A i \in 1..(j - 1) : i \in ran

(* C16: the chain's validate never raises; when a member that is run       *)
(* raises, CompositeValidator.validate and BasePipeline._validate_item     *)
(* still return a result, with is_valid false and an error entry.          *)
C16_ChainNeverRaises ==
    /\ "composite" \in vdone =>
          /\ ~ composite_result.raised
          /\ MemberRaises(members, RanMembers(members, stop_on_first_error)) =>
                ~ composite_result.is_valid /\ composite_result.errors # <<>>
    /\ "item" \in vdone =>
          /\ ~ item_result.raised
          /\ MemberRaises(members, 1..Len(members)) =>
                ~ item_result.is_valid /\ item_result.errors # <<>>

(* msgs is the concatenation, in member order, of parts[j] for j in ran *)
IsConcat(msgs, parts, ran) ==
    /\ \A p \in 1..Len(msgs) : msgs[p].by \in ran
    /\ \A p, q \in 1..Len(msgs) : p < q => msgs[p].by <= msgs[q].by
    /\ \A j \in ran : SelectSeq(msgs, LAMBDA m : m.by = j) = parts[j]

VerdictHolds(res, ms, ran) ==
    /\ res.is_valid <=> \A j \in ran : ms[j].errors = <<>>
    /\ IsConcat(res.errors, [j \in 1..Len(ms) |-> ms[j].errors], ran)
    /\ IsConcat(res.warnings, [j \in 1..Len(ms) |-> ms[j].warnings], ran)
    /\ Len(ms) = 0 => res.is_valid

(* C17: when no member raises, the chain's result is valid exactly when no *)
(* member that was run reported an error; its errors and its warnings are  *)
(* the members' lists concatenated in validator order; warnings alone      *)
(* never make it invalid; an empty chain gives a valid result.  This holds *)
(* of CompositeValidator.validate (members run up to the first error when  *)
(* stop_on_first_error is set) and of BasePipeline._validate_item.         *)
C17_CompositeVerdict ==
    /\ ("composite" \in vdone /\ ~ composite_result.raised) =>
          VerdictHolds(composite_result, members,
                       RanMembers(members, stop_on_first_error))
    /\ ("item" \in vdone /\ ~ item_result.raised) =>
          VerdictHolds(item_result, members, 1..Len(members))

C17_Witness ==
    /\ vdone = {"composite", "item"}
    /\ stop_on_first_error
    /\ Len(members) = 2
    /\ Len(members[1].errors) = 2 /\ members[1].warnings # <<>>
    /\ members[2].errors # <<>>
    /\ ~ composite_result.is_valid /\ ~ item_result.is_valid
    /\ Len(composite_result.errors) = 2 /\ Len(item_result.errors) = 3
    /\ composite_result.warnings # <<>>

(* C18: with strict=False a record that lacks a required field ("missing") *)
(* or has a value of the wrong type is still reported invalid, and each    *)
(* such error stays among the errors.                                      *)
C18_LenientSchema ==
    ("schema" \in vdone /\ ~ strict /\ schema_input.kind = "ValidationError") =>
        \A p \in 1..Len(schema_input.types) :
            schema_input.types[p] \in {"missing", "int_parsing"} =>
                /\ ~ schema_result.is_valid
                /\ \E q \in 1..Len(schema_result.errors) :
                      schema_result.errors[q] = schema_input.types[p]

(* C19: a CRUD.get on a key returns exactly one row, the record that       *)
(* CRUD.insert was last given for that key; and the table holds, for every *)
(* key inserted, exactly that record.                                      *)
C19_Upsert ==
    /\ (last.op = "get" /\ last_insert[last.key] # NoRow) =>
          last.rows = {last_insert[last.key]}
    /\ \A key \in Keys :
          last_insert[key] # NoRow => SelectById(db, key) = {last_insert[key]}

FaultyAt(data_list) == { p \in 1..Len(data_list) : data_list[p].fault # "none" }

Independent(data_list) ==
    \A p, q \in 1..Len(data_list) :
        p # q => /\ data_list[p].row.id # data_list[q].row.id
                 /\ data_list[p].row.u # data_list[q].row.u

(* C20: when exactly one record of the N given to bulk_insert fails in     *)
(* serialization or insertion, bulk_insert does not raise, reports N-1 of  *)
(* N, and every other record is in the table afterwards.                   *)
C20_BulkIsolation ==
    (/\ last.op = "bulk_insert"
     /\ Cardinality(FaultyAt(last.data_list)) = 1
     /\ Independent(last.data_list)) =>
        /\ ~ last.ret.raised
        /\ last.ret.m = Len(last.data_list) - 1
        /\ last.ret.n = Len(last.data_list)
        /\ \A p \in 1..Len(last.data_list) :
              p \notin FaultyAt(last.data_list) => last.data_list[p].row \in db

(* the entries of a bulk_update whose UPDATE was applied to a row *)
Applied(tbl, entries) ==
    { p \in 1..Len(entries) :
        entries[p].fault = "none" /\ \E x \in tbl : x.id = entries[p].id }

(* C21: the M of bulk_update's "M/N" summary is the number of entries      *)
(* whose update was applied to a row (an entry that raised, or whose id    *)
(* matches no row, is not counted) and N is the number of entries.         *)
C21_BulkUpdateCount ==
    [][(last'.op = "bulk_update" /\ Len(last'.entries) > 0) =>
          /\ ~ last'.ret.raised
          /\ last'.ret.m = Cardinality(Applied(db, last'.entries))
          /\ last'.ret.n = Len(last'.entries)]_vars

(* C26: CRUD.update sets the given field in every row with id_field =      *)
(* id_value and in no other; the rows it returns, and the table a later    *)
(* CRUD.get reads, hold the values after the update.                       *)
C26_UpdateApplied ==
    [][last'.op = "update" =>
          LET match == { x \in db : x[last'.field] = last'.key }
              after == { [x EXCEPT !.v = last'.row.v] : x \in match }
          IN /\ last'.rows = after
             /\ db' = (db \ match) \cup after]_vars

ClaimedModel ==
    <<[name |-> "id", annotation |-> "str"], [name |-> "count", annotation |-> "int"],
      [name |-> "active", annotation |-> "bool"]>>

(* C22: create_table_if_not_exists for {id: str (pk), count: int, active:  *)
(* bool} on a database without the table creates exactly the columns id    *)
(* TEXT PRIMARY KEY, count INTEGER, active BOOLEAN; and a CRUD.get on the  *)
(* id of the record last inserted returns that one record, with the same   *)
(* count and the same boolean.                                             *)
C22_SchemaRoundTrip ==
    /\ [][(tcols = <<>> /\ tlast'.op = "create" /\ tlast'.model_fields = ClaimedModel) =>
             tcols' = <<[name |-> "id", sql_type |-> "TEXT", pk |-> TRUE],
                        [name |-> "count", sql_type |-> "INTEGER", pk |-> FALSE],
                        [name |-> "active", sql_type |-> "BOOLEAN", pk |-> FALSE]>>]_vars
    /\ []((tlast.op = "get" /\ t_inserted # NoRecord /\ tlast.key = t_inserted.id) =>
             /\ ~ tlast.raised
             /\ tlast.rows = {t_inserted})

DefaultNames == {"pubmed_metadata", "document_processing"}

(* the file exists but cannot be loaded: unparseable, or an entry with an  *)
(* unknown key                                                             *)
LoadFails(file) ==
    \/ file.state = "unparseable"
    \/ file.state = "entries" /\ \E e \in 1..Len(file.entries) : file.entries[e].unknown_key

(* C28: load_config leaves an existing configuration file as it was (the   *)
(* defaults are written only when the file is absent), and when an         *)
(* existing file cannot be loaded the pipelines map holds no entry loaded  *)
(* from it next to the defaults.                                           *)
C28_ConfigFileKept ==
    [][(spc = "load_config" /\ spc' # "load_config") =>
          /\ config_file.state # "absent" => config_file' = config_file
          /\ LoadFails(config_file) =>
                \A p \in 1..Len(self_pipelines') : self_pipelines'[p].name \in DefaultNames]_vars

(* C29: any two distinct Executions of the history have distinct           *)
(* execution_id values.                                                    *)
C29_DistinctIds ==
    \A i, j \in 1..Len(executions) :
        i # j => executions[i].execution_id # executions[j].execution_id

(* the command succeeded overall: for run a result exists and its status   *)
(* is success, for status and list the command ran to its end; a scheduler *)
(* only ends by an exception or an interrupt                               *)
SucceededOverall ==
    CASE cli_args.command = "run" ->
           /\ cli_wrapper.kind = "returned"
           /\ StatusValue(cli_wrapper.result.status) = "success"
      [] cli_args.command \in {"status", "list"} -> cli_env.kind = "returns"
      [] OTHER -> FALSE

(* C23: main() and run_pipeline_command return 0 only when the command     *)
(* succeeded overall, and 1 in every other case: failed or missing result, *)
(* unknown pipeline, no command, an exception inside the command, or an    *)
(* interrupted command.                                                    *)
C23_ExitCode ==
    cli_entry # "none" =>
        cli_out = ExitCode(IF SucceededOverall THEN 0 ELSE 1)

(* C24: a successful run whose execution_time is 0 is returned by          *)
(* run_pubmed_metadata_pipeline to its caller with status SUCCESS and      *)
(* without an exception: the rate is computed only when execution_time > 0 *)
C24_RateGuarded ==
    (/\ cli_entry # "none"
     /\ cli_args.command = "run"
     /\ cli_args.pipeline = "pubmed_metadata"
     /\ cli_env.kind = "returns"
     /\ cli_env.result.status = "SUCCESS"
     /\ cli_env.result.execution_time = 0) =>
        cli_wrapper = Returned(cli_env.result)

(* C27: validate_connection returns true whenever the table exists and    *)
(* can be read, however many rows it holds; a run of a BasePipeline on a   *)
(* DatabaseSource over a non-empty table passes the connection pre-flight  *)
(* and reaches fetch_metadata.                                             *)
C27_ConnectionValid ==
    /\ (d_last.op = "validate_connection" /\ d_last.existed) => d_last.out.ret = "True"
    /\ (d_last.op \in {"run", "run_document_processing_pipeline"}
          /\ d_last.existed /\ d_last.before # {}) => d_last.out.preflight

=============================================================================
